---- MODULE Spec2Model ----
(***************************************************************************)
(* A model of the rent_vec crate (src/src/lib.rs, src/src/iter.rs): a      *)
(* vector of tri-state entries behind one RwLock, a tail bound, and the    *)
(* leases handed out by push.  Indices are the crate's 0-based indices.    *)
(***************************************************************************)
EXTENDS Integers, Sequences, FiniteSets, TLC

\* Bounds of the model.
MaxLen == 3      \* the longest items the free-running specifications grow
NumValues == 3   \* the most values they keep in use at once
SeqLen == 4      \* the longest items of the single caller
SeqValues == 4   \* the most values the single caller keeps in use at once
ScenN == 5       \* the most values the scripted scenario inserts

\* The values pushed.  A value is pushed only while no entry and no lease
\* holds it, so a value also names the lease that push returned for it.
Values == 1..(IF NumValues > ScenN THEN NumValues ELSE ScenN)

\* The threads that call into the container.
Threads == {"t1", "t2"}

VARIABLES
    items,   \* InnerRentVec::items, a sequence of entries
    tail,    \* InnerRentVec::tail
    leases,  \* leases[v]: is the lease of value v alive, and its Lease::entry
    lock,    \* RentVec::lock: is it write-locked, the number of read guards,
             \* and is it poisoned
    pc,      \* pc[t]: the call thread t is inside of, or the guard it holds
    arg,     \* arg[t]: the value pushed by, or the lease used by, that call
    seen,    \* the values the latest iteration over the RentVecGuard yielded
    last,    \* the latest completed call: its lease or value, the entry
             \* its lease recorded, and its outcome
    script   \* the scripted caller: its phase, its sizes n and k, the
             \* order of its removals and its position i in the phase

vars == <<items, tail, leases, lock, pc, arg, seen, last, script>>

Min(a, b) == IF a < b THEN a ELSE b
Max(a, b) == IF a > b THEN a ELSE b

----------------------------------------------------------------------------
\* enum Entry<T>

Empty == [tag |-> "Empty", x |-> 0]
Owned(t) == [tag |-> "Owned", x |-> t]
Moved(e) == [tag |-> "Moved", x |-> e]

\* items[i], items.get(i) and items[i] = e of the 0-based Vec.
InRange(its, i) == i >= 0 /\ i < Len(its)
At(its, i) == its[i + 1]
TagAt(its, i) == IF InRange(its, i) THEN At(its, i).tag ELSE "none"
Put(its, i, e) == [its EXCEPT ![i + 1] = e]

\* A filter that lets the payload of a Moved entry through as well.
EntryOwnedOrMoved(e) == IF e.tag = "Empty" THEN {} ELSE {e.x}

\* Entry::owned / Entry::owned_mut: Some(t) as {t}, None as {}.
EntryOwned(e) == IF e.tag = "Owned" THEN {e.x} ELSE {}

----------------------------------------------------------------------------
\* RentVec::remove

RECURSIVE LastOwned(_, _)
\* The loop of remove: from replace downward to the first Owned entry.
\* -1 stands for the panic of items[replace] out of bounds, or of
\* replace -= 1 at zero (an overflow panic, or a wrap followed by the
\* out-of-bounds panic).
LastOwned(its, replace) ==
    IF ~InRange(its, replace) THEN -1
    ELSE IF At(its, replace).tag = "Owned" THEN replace
    ELSE LastOwned(its, replace - 1)

\* A relocation that leaves no redirect behind: the entry the value came
\* from is freed.
RelocateNoRedirect(its, entry, replace) ==
    Put(Put(its, replace, Empty), entry, At(its, replace))

\* A relocation whose redirect names the entry it is stored in.
RelocateSelfRedirect(its, entry, replace) ==
    Put(Put(its, replace, Moved(replace)), entry, At(its, replace))

\* The entries after a relocation: items[replace] is replaced by
\* Moved(entry) first, and the value taken from it is then stored in
\* items[entry].
Relocate(its, entry, replace) ==
    Put(Put(its, replace, Moved(entry)), entry, At(its, replace))

\* The tail after a relocation.
RelocateTail(tl, replace) == Min(tl, replace)

\* A fast path that frees the entry and forgets the tail.
RemoveLastKeepTail(its, tl, entry) ==
    [items |-> Put(its, entry, Empty), tail |-> tl]

\* The entries and the tail after the fast path, entry == tail - 1.
RemoveLast(its, tl, entry) ==
    [items |-> Put(its, entry, Empty), tail |-> tl - 1]

\* remove(entry) on the entries its and the tail tl.  ret is the Option
\* returned; panic tells that the call panicked, with items and tail as the
\* panic left them.
RentVecRemove(its, tl, entry) ==
    IF tl = 0
    THEN \* tail - 1 underflows: a panic, or usize::MAX and items[usize::MAX]
         [items |-> its, tail |-> tl, ret |-> {}, panic |-> TRUE]
    ELSE LET replace == tl - 1 IN
         IF entry = replace
         THEN IF InRange(its, entry)
              THEN [items |-> RemoveLast(its, tl, entry).items,
                    tail |-> RemoveLast(its, tl, entry).tail,
                    ret |-> {}, panic |-> FALSE]
              ELSE [items |-> its, tail |-> tl, ret |-> {}, panic |-> TRUE]
         ELSE LET r == LastOwned(its, replace) IN
              IF r < 0
              THEN [items |-> its, tail |-> tl, ret |-> {}, panic |-> TRUE]
              ELSE IF ~InRange(its, entry)
              THEN \* mem::replace is done, items[entry] = item panics
                   [items |-> Put(its, r, Moved(entry)), tail |-> tl,
                    ret |-> {}, panic |-> TRUE]
              ELSE [items |-> Relocate(its, entry, r),
                    tail |-> RelocateTail(tl, r),
                    ret |-> {r}, panic |-> FALSE]

----------------------------------------------------------------------------
\* RentVec::push

RECURSIVE PushScanReuseMoved(_, _)
\* A scan that takes the first entry that is not Owned, Moved or Empty.
PushScanReuseMoved(its, t) ==
    IF ~InRange(its, t)
    THEN [kind |-> "panic", idx |-> t]
    ELSE IF At(its, t).tag = "Owned"
    THEN [kind |-> "none", idx |-> t]
    ELSE [kind |-> "some", idx |-> t]

RECURSIVE PushScan(_, _)
\* The loop of push from the local tail t: Some(index) of the first Empty
\* entry, None at an Owned entry, a panic when items[t] is out of bounds.
PushScan(its, t) ==
    IF ~InRange(its, t)
    THEN [kind |-> "panic", idx |-> t]
    ELSE IF At(its, t).tag = "Empty"
    THEN [kind |-> "some", idx |-> t]
    ELSE IF At(its, t).tag = "Owned"
    THEN [kind |-> "none", idx |-> t]
    ELSE IF t = Len(its)
    THEN [kind |-> "none", idx |-> t]
    ELSE PushScan(its, t + 1)

\* The tail after a push that used the index entry.
PushTail(tl, entry) == Max(tl, entry + 1)

\* push(item) on the entries its and the tail tl.  entry is the index the
\* returned lease records.
RentVecPush(its, tl, item) ==
    LET scan == IF tl # Len(its)
                THEN PushScan(its, tl)
                ELSE [kind |-> "none", idx |-> tl]
    IN  IF scan.kind = "panic"
        THEN [items |-> its, tail |-> tl, entry |-> {}, panic |-> TRUE]
        ELSE LET entry == IF scan.kind = "some" THEN scan.idx ELSE Len(its)
                 its2 == IF scan.kind = "some"
                         THEN Put(its, scan.idx, Owned(item))
                         ELSE Append(its, Owned(item))
             IN  [items |-> its2, tail |-> PushTail(tl, entry),
                  entry |-> {entry}, panic |-> FALSE]

----------------------------------------------------------------------------
\* RentVec::shrink

RECURSIVE PopNotOwned(_)
\* A shrink that pops every trailing entry that is not Owned.
PopNotOwned(its) ==
    IF Len(its) > 0 /\ its[Len(its)].tag # "Owned"
    THEN PopNotOwned(SubSeq(its, 1, Len(its) - 1))
    ELSE its

RECURSIVE PopEmpty(_)
\* while let Some(Entry::Empty) = items.last() { items.pop(); }
PopEmpty(its) ==
    IF Len(its) > 0 /\ its[Len(its)].tag = "Empty"
    THEN PopEmpty(SubSeq(its, 1, Len(its) - 1))
    ELSE its

\* The tail after shrink.
ShrinkTail(tl, its) == Min(tl, Len(its))

RentVecShrink(its, tl) ==
    [items |-> PopEmpty(its), tail |-> ShrinkTail(tl, PopEmpty(its))]

----------------------------------------------------------------------------
\* Lease::guard

\* A loop that follows a redirect and leaves the Moved entry in place.
CollapseKeep(its, entry) == its

\* What the loop of guard does at a Moved entry: the entry is overwritten.
Collapse(its, entry) == Put(its, entry, Empty)

RECURSIVE Chase(_, _, _)
\* The loop of guard from self.entry: found tells whether it broke out with
\* an Owned entry (otherwise the closure returned None and unwrap panics);
\* entry is self.entry and items the entries as the loop left them.
Chase(its, entry, hops) ==
    IF ~InRange(its, entry)
    THEN [items |-> its, entry |-> entry, found |-> FALSE, hops |-> hops]
    ELSE IF At(its, entry).tag = "Empty"
    THEN [items |-> its, entry |-> entry, found |-> FALSE, hops |-> hops]
    ELSE IF At(its, entry).tag = "Owned"
    THEN [items |-> its, entry |-> entry, found |-> TRUE, hops |-> hops]
    ELSE Chase(Collapse(its, entry), At(its, entry).x, hops + 1)

----------------------------------------------------------------------------
\* Iter::new / IterMut::new

RECURSIVE FilterMapOwned(_)
\* items.iter().filter_map(Entry::owned), collected.
FilterMapOwned(its) ==
    IF its = <<>> THEN <<>>
    ELSE (IF EntryOwned(Head(its)) # {} THEN <<Head(its).x>> ELSE <<>>)
         \o FilterMapOwned(Tail(its))

----------------------------------------------------------------------------
\* The RwLock.  std poisons it when a thread panics while it holds the write
\* guard; a panic under a read guard does not.  lock.write() and lock.read()
\* then return Err, which still carries the guard.

WriteAvailable(lk) == ~lk.writer /\ lk.readers = 0
ReadAvailable(lk) == ~lk.writer

\* A write(rwl) that unwraps the LockResult: it panics once the lock is
\* poisoned.
writeUnwrap(lk) == IF lk.poisoned THEN "panic" ELSE "guard"

\* write(rwl): Ok(g) => g, Err(g) => g.into_inner().
write(lk) == IF lk.poisoned THEN "guard" ELSE "guard"

\* read(rwl): Ok(g) => g, Err(g) => g.into_inner().
read(lk) == IF lk.poisoned THEN "guard" ELSE "guard"

WriteLocked(lk) == [lk EXCEPT !.writer = TRUE]
WriteUnlocked(lk) == [lk EXCEPT !.writer = FALSE]
ReadLocked(lk) == [lk EXCEPT !.readers = @ + 1]
ReadUnlocked(lk) == [lk EXCEPT !.readers = @ - 1]

\* The write guard dropped while its thread unwinds from a panic.
WritePoisoned(lk) == [lk EXCEPT !.writer = FALSE, !.poisoned = TRUE]

\* A Lease::guard that drops its read guard when it returns.
LockDroppedOnReturn(lk) == [lk EXCEPT !.readers = @ - 1]

\* The lock as Lease::guard leaves it on success: the read guard moves into
\* the LeaseGuard and stays held.
LockInLeaseGuard(lk) == lk

----------------------------------------------------------------------------
\* The state after construction.

NoLease == [live |-> FALSE, entry |-> 0]

Free == [phase |-> "free", n |-> 0, k |-> 0, order |-> "none", i |-> 0]

InitStore ==
    /\ items = <<>>
    /\ tail = 0
    /\ leases = [v \in Values |-> NoLease]
    /\ lock = [writer |-> FALSE, readers |-> 0, poisoned |-> FALSE]
    /\ pc = [t \in Threads |-> "idle"]
    /\ arg = [t \in Threads |-> 0]
    /\ seen = <<>>
    /\ last = [op |-> "new", idx |-> 0, ret |-> {}, panic |-> FALSE,
               val |-> 0, was |-> "none"]

Init == InitStore /\ script = Free

\* A value no entry holds and no lease stands for.
Unused(v) ==
    /\ ~leases[v].live
    /\ \A i \in 0..(Len(items) - 1) : At(items, i) # Owned(v)
    /\ \A t \in Threads : ~(pc[t] = "push" /\ arg[t] = v)

\* The value a push may take.  The crate never inspects a T, so the model is
\* symmetric in the values; the least unused one stands for all of them.
Fresh(v) == Unused(v) /\ \A w \in Values : Unused(w) => v <= w

\* A lease a thread can use: alive, and not borrowed or moved into a call.
Usable(v) ==
    /\ leases[v].live
    /\ \A t \in Threads : arg[t] # v

----------------------------------------------------------------------------
\* A call that panics where it takes the lock: it ends there, and nothing
\* but the record of the last call changes.
LockPanic ==
    /\ last' = [op |-> "lock", idx |-> 0, ret |-> {}, panic |-> TRUE,
                val |-> 0, was |-> "none"]
    /\ UNCHANGED <<lock, pc, arg>>

----------------------------------------------------------------------------
\* push: write(&self.lock), then the body, then the guard is dropped.

PushAcquire(t, v) ==
    /\ pc[t] = "idle"
    /\ Fresh(v)
    /\ WriteAvailable(lock)
    /\ IF write(lock) = "guard"
       THEN /\ lock' = WriteLocked(lock)
            /\ pc' = [pc EXCEPT ![t] = "push"]
            /\ arg' = [arg EXCEPT ![t] = v]
            /\ UNCHANGED last
       ELSE LockPanic
    /\ UNCHANGED <<items, tail, leases, seen>>

PushBody(t) ==
    /\ pc[t] = "push"
    /\ LET p == RentVecPush(items, tail, arg[t]) IN
        /\ items' = p.items
        /\ tail' = p.tail
        /\ leases' = IF p.panic THEN leases
                     ELSE [leases EXCEPT ![arg[t]] =
                              [live |-> TRUE, entry |-> CHOOSE e \in p.entry : TRUE]]
        /\ last' = [op |-> "push",
                    idx |-> IF p.panic THEN tail ELSE CHOOSE e \in p.entry : TRUE,
                    ret |-> p.entry, panic |-> p.panic,
                    val |-> arg[t], was |-> "none"]
        /\ lock' = IF p.panic THEN WritePoisoned(lock) ELSE WriteUnlocked(lock)
    /\ pc' = [pc EXCEPT ![t] = "idle"]
    /\ arg' = [arg EXCEPT ![t] = 0]
    /\ UNCHANGED seen

----------------------------------------------------------------------------
\* Lease::remove: the lease is consumed, self.tenant.remove(self.entry).

\* A Lease::remove that follows the redirects before it removes.
RemoveTargetResolved(its, entry) == Chase(its, entry, 0).entry

\* The index Lease::remove hands to RentVec::remove: self.entry as the
\* lease last recorded it.
RemoveTarget(its, entry) == entry

RemoveAcquire(t, v) ==
    /\ pc[t] = "idle"
    /\ Usable(v)
    /\ WriteAvailable(lock)
    /\ IF write(lock) = "guard"
       THEN /\ lock' = WriteLocked(lock)
            /\ pc' = [pc EXCEPT ![t] = "remove"]
            /\ arg' = [arg EXCEPT ![t] = v]
            /\ UNCHANGED last
       ELSE LockPanic
    /\ UNCHANGED <<items, tail, leases, seen>>

RemoveBody(t) ==
    /\ pc[t] = "remove"
    /\ LET target == RemoveTarget(items, leases[arg[t]].entry)
           r == RentVecRemove(items, tail, target)
       IN
        /\ items' = r.items
        /\ tail' = r.tail
        /\ last' = [op |-> "remove", idx |-> target,
                    ret |-> r.ret, panic |-> r.panic,
                    val |-> arg[t], was |-> TagAt(items, leases[arg[t]].entry)]
        /\ lock' = IF r.panic THEN WritePoisoned(lock) ELSE WriteUnlocked(lock)
    /\ leases' = [leases EXCEPT ![arg[t]] = NoLease]
    /\ pc' = [pc EXCEPT ![t] = "idle"]
    /\ arg' = [arg EXCEPT ![t] = 0]
    /\ UNCHANGED seen

----------------------------------------------------------------------------
\* shrink

ShrinkAcquire(t) ==
    /\ pc[t] = "idle"
    /\ WriteAvailable(lock)
    /\ IF write(lock) = "guard"
       THEN /\ lock' = WriteLocked(lock)
            /\ pc' = [pc EXCEPT ![t] = "shrink"]
            /\ UNCHANGED <<arg, last>>
       ELSE LockPanic
    /\ UNCHANGED <<items, tail, leases, seen>>

ShrinkBody(t) ==
    /\ pc[t] = "shrink"
    /\ items' = RentVecShrink(items, tail).items
    /\ tail' = RentVecShrink(items, tail).tail
    /\ last' = [op |-> "shrink", idx |-> Len(items), ret |-> {}, panic |-> FALSE,
                val |-> 0, was |-> "none"]
    /\ lock' = WriteUnlocked(lock)
    /\ pc' = [pc EXCEPT ![t] = "idle"]
    /\ UNCHANGED <<leases, arg, seen>>

----------------------------------------------------------------------------
\* Lease::guard: read(&self.tenant.lock), then the loop; on success the
\* read guard lives on in the LeaseGuard, on a panic it is dropped.

\* A Lease::guard that hands the Option of the loop to its caller.
ReturnsOption(found) == FALSE

\* .unwrap() on the Option the loop produced: None is a panic.
UnwrapPanics(found) == ~found

GuardAcquire(t, v) ==
    /\ pc[t] = "idle"
    /\ Usable(v)
    /\ ReadAvailable(lock)
    /\ IF read(lock) = "guard"
       THEN /\ lock' = ReadLocked(lock)
            /\ pc' = [pc EXCEPT ![t] = "guard"]
            /\ arg' = [arg EXCEPT ![t] = v]
            /\ UNCHANGED last
       ELSE LockPanic
    /\ UNCHANGED <<items, tail, leases, seen>>

GuardResolve(t) ==
    /\ pc[t] = "guard"
    /\ LET c == Chase(items, leases[arg[t]].entry, 0) IN
        /\ items' = c.items
        /\ leases' = [leases EXCEPT ![arg[t]].entry = c.entry]
        /\ last' = [op |-> "guard", idx |-> leases[arg[t]].entry,
                    ret |-> {c.hops}, panic |-> UnwrapPanics(c.found),
                    val |-> arg[t], was |-> TagAt(items, leases[arg[t]].entry)]
        /\ IF c.found
           THEN /\ lock' = LockInLeaseGuard(lock)
                /\ pc' = [pc EXCEPT ![t] = "held"]
                /\ arg' = arg
           ELSE /\ lock' = ReadUnlocked(lock)
                /\ pc' = [pc EXCEPT ![t] = "idle"]
                /\ arg' = [arg EXCEPT ![t] = 0]
    /\ UNCHANGED <<tail, seen>>

\* The LeaseGuard goes out of scope.
LeaseGuardDrop(t) ==
    /\ pc[t] = "held"
    /\ lock' = ReadUnlocked(lock)
    /\ pc' = [pc EXCEPT ![t] = "idle"]
    /\ arg' = [arg EXCEPT ![t] = 0]
    /\ UNCHANGED <<items, tail, leases, seen, last>>

----------------------------------------------------------------------------
\* RentVec::guard and the iterators of the RentVecGuard.

BulkAcquire(t) ==
    /\ pc[t] = "idle"
    /\ WriteAvailable(lock)
    /\ IF write(lock) = "guard"
       THEN /\ lock' = WriteLocked(lock)
            /\ pc' = [pc EXCEPT ![t] = "bulk"]
            /\ UNCHANGED <<arg, last>>
       ELSE LockPanic
    /\ UNCHANGED <<items, tail, leases, seen>>

\* guard.iter() or guard.iter_mut(), run to its end.
BulkIter(t) ==
    /\ pc[t] = "bulk"
    /\ seen' = FilterMapOwned(items)
    /\ last' = [op |-> "iter", idx |-> Len(items), ret |-> {}, panic |-> FALSE,
                val |-> 0, was |-> "none"]
    /\ UNCHANGED <<items, tail, leases, lock, pc, arg>>

\* The RentVecGuard goes out of scope.
BulkDrop(t) ==
    /\ pc[t] = "bulk"
    /\ lock' = WriteUnlocked(lock)
    /\ pc' = [pc EXCEPT ![t] = "idle"]
    /\ seen' = <<>>
    /\ last' = [op |-> "drop", idx |-> 0, ret |-> {}, panic |-> FALSE,
                val |-> 0, was |-> "none"]
    /\ UNCHANGED <<items, tail, leases, arg>>

----------------------------------------------------------------------------

\* The lease of v records an index whose entry is Owned.
RecordedOwned(v) ==
    /\ InRange(items, leases[v].entry)
    /\ At(items, leases[v].entry).tag = "Owned"

\* The pushes the free-running specifications take: within the bounds.
Bounded(v) ==
    /\ v <= NumValues
    /\ Len(RentVecPush(items, tail, v).items) <= MaxLen

\* The calls any thread can make at any time, Lease::remove aside.
Calls ==
    \/ \E t \in Threads, v \in Values :
          Bounded(v) /\ PushAcquire(t, v) /\ UNCHANGED script
    \/ \E t \in Threads : PushBody(t) /\ UNCHANGED script
    \/ \E t \in Threads : RemoveBody(t) /\ UNCHANGED script
    \/ \E t \in Threads : ShrinkAcquire(t) /\ UNCHANGED script
    \/ \E t \in Threads : ShrinkBody(t) /\ UNCHANGED script
    \/ \E t \in Threads, v \in Values : GuardAcquire(t, v) /\ UNCHANGED script
    \/ \E t \in Threads : GuardResolve(t) /\ UNCHANGED script
    \/ \E t \in Threads : LeaseGuardDrop(t) /\ UNCHANGED script
    \/ \E t \in Threads : BulkAcquire(t) /\ UNCHANGED script
    \/ \E t \in Threads : BulkIter(t) /\ UNCHANGED script
    \/ \E t \in Threads : BulkDrop(t) /\ UNCHANGED script

\* Any thread makes any call, on any lease it can use.
Next ==
    \/ Calls
    \/ \E t \in Threads, v \in Values : RemoveAcquire(t, v) /\ UNCHANGED script

Spec == Init /\ [][Next]_vars

\* The same, for callers that call Lease::remove only on a lease whose
\* recorded index holds an Owned entry.
NextOwned ==
    \/ Calls
    \/ \E t \in Threads, v \in Values :
          RecordedOwned(v) /\ RemoveAcquire(t, v) /\ UNCHANGED script

SpecOwned == Init /\ [][NextOwned]_vars

----------------------------------------------------------------------------
\* One caller, making the calls of SpecOwned one after the other, on a
\* longer items.

Driver == "t1"

BoundedSeq(v) ==
    /\ v <= SeqValues
    /\ Len(RentVecPush(items, tail, v).items) <= SeqLen

NextOwnedSeq ==
    \/ \E v \in Values :
          BoundedSeq(v) /\ PushAcquire(Driver, v) /\ UNCHANGED script
    \/ PushBody(Driver) /\ UNCHANGED script
    \/ \E v \in Values :
          RecordedOwned(v) /\ RemoveAcquire(Driver, v) /\ UNCHANGED script
    \/ RemoveBody(Driver) /\ UNCHANGED script
    \/ ShrinkAcquire(Driver) /\ UNCHANGED script
    \/ ShrinkBody(Driver) /\ UNCHANGED script
    \/ \E v \in Values : GuardAcquire(Driver, v) /\ UNCHANGED script
    \/ GuardResolve(Driver) /\ UNCHANGED script
    \/ LeaseGuardDrop(Driver) /\ UNCHANGED script
    \/ BulkAcquire(Driver) /\ UNCHANGED script
    \/ BulkIter(Driver) /\ UNCHANGED script
    \/ BulkDrop(Driver) /\ UNCHANGED script

SpecOwnedSeq == Init /\ [][NextOwnedSeq]_vars

----------------------------------------------------------------------------
\* A scripted caller, one thread: it pushes the values 1..n (their leases
\* record the indices 0..n-1), removes the leases of the last k of them, in
\* increasing ("asc") or decreasing ("desc") order of index, shrinks, and
\* resolves each remaining lease.

\* The index of the i-th removal of the script.
RemoveAt(sc) ==
    IF sc.order = "asc" THEN sc.n - sc.k + sc.i ELSE sc.n - 1 - sc.i

ScenInit ==
    /\ InitStore
    /\ script \in {[phase |-> "push", n |-> n, k |-> k, order |-> o, i |-> 0] :
                      n \in 1..ScenN, k \in 0..ScenN, o \in {"asc", "desc"}}
    /\ script.k <= script.n

ScenPushAcquire ==
    /\ script.phase = "push"
    /\ PushAcquire(Driver, script.i + 1)
    /\ UNCHANGED script

ScenPushBody ==
    /\ script.phase = "push"
    /\ PushBody(Driver)
    /\ script' = IF script.i + 1 = script.n
                 THEN [script EXCEPT !.phase = "remove", !.i = 0]
                 ELSE [script EXCEPT !.i = @ + 1]

ScenRemoveAcquire ==
    /\ script.phase = "remove"
    /\ script.i < script.k
    /\ RemoveAcquire(Driver, RemoveAt(script) + 1)
    /\ UNCHANGED script

ScenRemoveBody ==
    /\ script.phase = "remove"
    /\ RemoveBody(Driver)
    /\ script' = [script EXCEPT !.i = @ + 1]

ScenShrinkAcquire ==
    /\ script.phase = "remove"
    /\ script.i = script.k
    /\ ShrinkAcquire(Driver)
    /\ UNCHANGED script

ScenShrinkBody ==
    /\ script.phase = "remove"
    /\ ShrinkBody(Driver)
    /\ script' = [script EXCEPT !.phase = "resolve", !.i = 0]

ScenGuardAcquire ==
    /\ script.phase = "resolve"
    /\ script.i < script.n - script.k
    /\ GuardAcquire(Driver, script.i + 1)
    /\ UNCHANGED script

\* A resolution that panics ends the lease's turn, like a dropped guard.
ScenGuardResolve ==
    /\ script.phase = "resolve"
    /\ GuardResolve(Driver)
    /\ script' = IF pc'[Driver] = "idle"
                 THEN [script EXCEPT !.i = @ + 1]
                 ELSE script

ScenLeaseGuardDrop ==
    /\ script.phase = "resolve"
    /\ LeaseGuardDrop(Driver)
    /\ script' = [script EXCEPT !.i = @ + 1]

ScenNext ==
    \/ ScenPushAcquire
    \/ ScenPushBody
    \/ ScenRemoveAcquire
    \/ ScenRemoveBody
    \/ ScenShrinkAcquire
    \/ ScenShrinkBody
    \/ ScenGuardAcquire
    \/ ScenGuardResolve
    \/ ScenLeaseGuardDrop

SpecScenario == ScenInit /\ [][ScenNext]_vars

----------------------------------------------------------------------------
\* Vocabulary of the properties.

Indices(its) == 0..(Len(its) - 1)
OwnedIdx(its) == {i \in Indices(its) : At(its, i).tag = "Owned"}
LiveLeases == {v \in Values : leases[v].live}

OwnedCount(its) == Cardinality(OwnedIdx(its))

\* Thread t completes a call in this step.
PushDone(t) == pc[t] = "push" /\ pc'[t] = "idle"
RemoveDone(t) == pc[t] = "remove" /\ pc'[t] = "idle"
ShrinkDone(t) == pc[t] = "shrink" /\ pc'[t] = "idle"
GuardDone(t) == pc[t] = "guard" /\ pc'[t] # "guard"

\* The lease of v records an index whose entry holds v.
HoldsOwn(v) ==
    /\ InRange(items, leases[v].entry)
    /\ At(items, leases[v].entry) = Owned(v)

RECURSIVE Path(_, _, _)
\* The indices a redirect chain visits from index i, read off the entries
\* without changing them: every Moved entry leads on to its redirect.
Path(its, i, fuel) ==
    IF fuel > 0 /\ InRange(its, i) /\ At(its, i).tag = "Moved"
    THEN <<i>> \o Path(its, At(its, i).x, fuel - 1)
    ELSE <<i>>

PathEnd(its, i) == Path(its, i, Len(its))[Len(Path(its, i, Len(its)))]

\* The chain from index i is some Moved entries that end at an Owned one.
EndsOwned(its, i) ==
    /\ InRange(its, PathEnd(its, i))
    /\ At(its, PathEnd(its, i)).tag = "Owned"

----------------------------------------------------------------------------
\* C1. Lease validity under churn: when Lease::remove is only ever called
\* on leases whose recorded entry is Owned, resolving any live lease finds
\* an Owned entry, and it holds the value whose push returned the lease; no
\* Lease::guard call panics.
C1_LeaseValidity ==
    /\ \A v \in LiveLeases :
          LET c == Chase(items, leases[v].entry, 0)
          IN  c.found /\ At(c.items, c.entry) = Owned(v)
    /\ last.op = "guard" => ~last.panic

\* A lease was resolved through a redirect while another lease is alive,
\* after a removal relocated its value.
C1_Witness ==
    /\ last.op = "guard" /\ ~last.panic /\ last.ret # {0}
    /\ \E t \in Threads :
          /\ pc[t] = "held"
          /\ HoldsOwn(arg[t])
          /\ \E w \in LiveLeases : w # arg[t]

\* C2. Removal vacates the value: a Lease::remove on a lease whose recorded
\* entry is Owned and holds the lease's value leaves that value in no Owned
\* entry: one Owned entry fewer, and iteration no longer yields the value.
C2_RemovalVacates ==
    [][\A t \in Threads :
          (RemoveDone(t) /\ HoldsOwn(arg[t])) =>
             /\ \A i \in Indices(items') : At(items', i) # Owned(arg[t])
             /\ OwnedCount(items') = OwnedCount(items) - 1
             /\ \A k \in 1..Len(FilterMapOwned(items')) :
                   FilterMapOwned(items')[k] # arg[t]]_vars

\* C3. Compaction bound: tail never exceeds the length of items, and no
\* entry at an index at or after tail is Owned.
C3_CompactionBound ==
    /\ tail <= Len(items)
    /\ \A i \in OwnedIdx(items) : i < tail

\* The index push is to use: the first Empty entry from tail on with only
\* Moved entries between tail and it, and otherwise a new entry at the end.
ReusableFrom(its, tl) ==
    {i \in Indices(its) :
        /\ i >= tl
        /\ At(its, i).tag = "Empty"
        /\ \A j \in tl..(i - 1) : At(its, j).tag = "Moved"}

PushIndex(its, tl) ==
    IF ReusableFrom(its, tl) # {}
    THEN CHOOSE i \in ReusableFrom(its, tl) : TRUE
    ELSE Len(its)

\* C4. Insertion always completes: every push returns a lease and does not
\* panic; the lease records the first Empty index found from tail past
\* Moved entries, or else the index of an appended entry; that entry is
\* Owned(value), the other entries are as before, and tail becomes
\* max(tail, index + 1).
C4_PushCompletes ==
    [][\A t \in Threads :
          PushDone(t) =>
             LET e == PushIndex(items, tail) IN
             /\ ~last'.panic
             /\ leases'[arg[t]] = [live |-> TRUE, entry |-> e]
             /\ items' = IF e < Len(items)
                         THEN Put(items, e, Owned(arg[t]))
                         ELSE Append(items, Owned(arg[t]))
             /\ tail' = Max(tail, e + 1)]_vars

\* C5. Chain collapse on resolution: when the recorded index of a lease
\* starts a chain of k >= 0 Moved entries that ends at an Owned entry, one
\* Lease::guard call succeeds, gives access to that Owned entry with its
\* value untouched, leaves every Moved entry of the chain Empty and every
\* other entry as it was, and the lease records the index of the Owned entry.
C5_ChainCollapse ==
    [][\A t \in Threads :
          (GuardDone(t) /\ EndsOwned(items, leases[arg[t]].entry)) =>
             LET p == Path(items, leases[arg[t]].entry, Len(items))
                 e == PathEnd(items, leases[arg[t]].entry)
             IN
             /\ pc'[t] = "held"
             /\ arg'[t] = arg[t]
             /\ ~last'.panic
             /\ leases'[arg[t]] = [live |-> TRUE, entry |-> e]
             /\ Len(items') = Len(items)
             /\ At(items', e) = At(items, e)
             /\ \A j \in 1..(Len(p) - 1) : At(items', p[j]) = Empty
             /\ \A i \in Indices(items) :
                   (\A j \in 1..Len(p) : p[j] # i) => At(items', i) = At(items, i)]_vars

\* A lease whose value was relocated twice was resolved in one call: two
\* redirects followed, and the lease now records the Owned entry.
C5_Witness ==
    /\ last.op = "guard" /\ ~last.panic /\ last.ret = {2}
    /\ \E t \in Threads :
          /\ pc[t] = "held"
          /\ HoldsOwn(arg[t])
          /\ leases[arg[t]].entry # last.idx

\* C6. Relocation step of removal: a remove whose target is not tail - 1
\* moves the value of the rightmost Owned entry r below tail into the
\* target entry, leaves Moved(target) at r, sets tail to min(tail, r) and
\* returns r.
C6_Relocation ==
    [][\A t \in Threads :
          (RemoveDone(t) /\ leases[arg[t]].entry # tail - 1) =>
             LET target == leases[arg[t]].entry
                 below == {i \in OwnedIdx(items) : i < tail}
             IN
             /\ below # {}
             /\ LET r == CHOOSE i \in below : \A j \in below : j <= i IN
                /\ InRange(items', target)
                /\ At(items', target) = At(items, r)
                /\ At(items', r) = Moved(target)
                /\ tail' = Min(tail, r)
                /\ last'.ret = {r}
                /\ ~last'.panic]_vars

\* C7. Bulk iteration content and order: an iteration over the
\* RentVecGuard yields the values of exactly the Owned entries, each once,
\* in increasing index order; Empty and Moved entries yield nothing.
C7_IterationOrder ==
    last.op = "iter" =>
        /\ Len(seen) = OwnedCount(items)
        /\ \A i \in OwnedIdx(items) :
              seen[1 + Cardinality({j \in OwnedIdx(items) : j < i})] = At(items, i).x

\* An iteration that skipped a Moved entry lying between two Owned ones.
C7_Witness ==
    /\ last.op = "iter"
    /\ \E t \in Threads : pc[t] = "bulk"
    /\ Len(seen) >= 2
    /\ \E i, j, k \in Indices(items) :
          /\ i < j /\ j < k
          /\ At(items, i).tag = "Owned"
          /\ At(items, j).tag = "Moved"
          /\ At(items, k).tag = "Owned"

\* The threads inside an exclusive call or holding the RentVecGuard, and
\* those inside Lease::guard or holding a LeaseGuard.
Exclusive == {t \in Threads : pc[t] \in {"push", "remove", "shrink", "bulk"}}
Shared == {t \in Threads : pc[t] \in {"guard", "held"}}

\* C8. Lock exclusion: at most one thread is inside push, remove or shrink
\* or holds a RentVecGuard, and while one is, no thread is inside a lease
\* resolution or holds a LeaseGuard.
C8_LockExclusion ==
    /\ Cardinality(Exclusive) <= 1
    /\ Exclusive # {} => Shared = {}

\* A RentVecGuard is alive and was iterated while leases are alive, and
\* the other threads are outside every call.
C8_Witness ==
    /\ \E t \in Threads :
          /\ pc[t] = "bulk"
          /\ \A u \in Threads \ {t} : pc[u] = "idle"
    /\ last.op = "iter"
    /\ LiveLeases # {}

\* C9. Shrink is pure capacity reclamation: shrink drops exactly the
\* maximal run of trailing Empty entries, sets tail to min(tail, new
\* length), leaves the remaining entries and every lease as they were, and
\* every live lease resolves afterwards as it would have before.
C9_ShrinkFrame ==
    [][\A t \in Threads :
          ShrinkDone(t) =>
             LET n == Len(items') IN
             /\ n <= Len(items)
             /\ \A i \in n..(Len(items) - 1) : At(items, i) = Empty
             /\ n > 0 => At(items, n - 1) # Empty
             /\ \A i \in 0..(n - 1) : At(items', i) = At(items, i)
             /\ tail' = Min(tail, n)
             /\ leases' = leases
             /\ \A v \in LiveLeases :
                   LET b == Chase(items, leases[v].entry, 0)
                       a == Chase(items', leases[v].entry, 0)
                   IN  /\ a.found = b.found
                       /\ b.found => /\ a.entry = b.entry
                                     /\ At(a.items, a.entry) = At(b.items, b.entry)]_vars

\* A shrink dropped entries while a lease whose recorded entry is a
\* redirect is alive.
C9_Witness ==
    /\ last.op = "shrink"
    /\ last.idx > Len(items)
    /\ \E v \in LiveLeases :
          /\ InRange(items, leases[v].entry)
          /\ At(items, leases[v].entry).tag = "Moved"

\* C10. Shrink safety scenario: after inserting 5 values, removing the
\* leases of the last 3 of them in index order and shrinking, items has
\* length 2 and each of the 2 remaining leases resolves to its value.
C10_ShrinkScenario ==
    (/\ script.phase = "resolve"
     /\ script.order = "asc"
     /\ script.n = 5 /\ script.k = 3) =>
        /\ Len(items) = script.n - script.k
        /\ \A v \in 1..(script.n - script.k) :
              /\ leases[v].live
              /\ Chase(items, leases[v].entry, 0).found
              /\ At(items, Chase(items, leases[v].entry, 0).entry) = Owned(v)

----------------------------------------------------------------------------
\* Lease::guard as a function of the store.  The calls of Spec never leave
\* the chain of a live lease ending anywhere but at an Owned entry, so the
\* branches of the loop that end in None are exercised here: the store is
\* any sequence of entries without a redirect cycle, and one lease records
\* any index.

StoreEntries ==
    {Empty} \cup {Owned(v) : v \in 1..NumValues}
            \cup {Moved(i) : i \in 0..(MaxLen - 1)}

Stores == UNION {[1..n -> StoreEntries] : n \in 0..MaxLen}

ResolveInit ==
    /\ items \in Stores
    /\ \A i \in Indices(items) :
          ~(/\ InRange(items, PathEnd(items, i))
            /\ At(items, PathEnd(items, i)).tag = "Moved")
    /\ \A i, j \in OwnedIdx(items) : At(items, i) = At(items, j) => i = j
    /\ tail = Len(items)
    /\ \E e \in 0..MaxLen :
          leases = [v \in Values |->
                       IF v = 1 THEN [live |-> TRUE, entry |-> e] ELSE NoLease]
    /\ lock = [writer |-> FALSE, readers |-> 0, poisoned |-> FALSE]
    /\ pc = [t \in Threads |-> "idle"]
    /\ arg = [t \in Threads |-> 0]
    /\ seen = <<>>
    /\ last = [op |-> "new", idx |-> 0, ret |-> {}, panic |-> FALSE,
               val |-> 0, was |-> "none"]
    /\ script = Free

ResolveNext ==
    \/ \E t \in Threads, v \in Values : GuardAcquire(t, v) /\ UNCHANGED script
    \/ \E t \in Threads : GuardResolve(t) /\ UNCHANGED script
    \/ \E t \in Threads : LeaseGuardDrop(t) /\ UNCHANGED script

SpecResolve == ResolveInit /\ [][ResolveNext]_vars

WellFormed(e) ==
    \/ e = Empty
    \/ e.tag = "Owned" /\ e.x \in Values /\ e = Owned(e.x)
    \/ e.tag = "Moved" /\ e.x \in Nat /\ e = Moved(e.x)

\* C12. Lock-failure resilience: after a call has panicked while it held
\* the lock, no later push, Lease::guard, Lease::remove, shrink or
\* RentVec::guard fails where it takes the lock, and the store it sees has
\* only whole entries (Empty, Owned or Moved) and tail <= the length of
\* items.
C12_LockResilience ==
    /\ last.op # "lock"
    /\ \A i \in Indices(items) : WellFormed(At(items, i))
    /\ tail <= Len(items)

\* The lock is poisoned by a call that panicked under the write guard, and
\* a later push took the lock and returned its lease.
C12_Witness ==
    /\ lock.poisoned
    /\ last.op = "push" /\ ~last.panic
    /\ \E v \in LiveLeases : leases[v].entry = last.idx /\ HoldsOwn(v)

\* C13. Tail is a strict partition: tail is the index of the first entry
\* that is not Owned, so every entry at an index below tail is Owned and
\* the downward scan of remove meets no Empty or Moved entry below tail.
C13_TailPartition ==
    /\ \A i \in Indices(items) : i < tail => At(items, i).tag = "Owned"
    /\ InRange(items, tail) => At(items, tail).tag # "Owned"

\* The Empty entries of items, wherever they are.
EmptyIdx(its) == {i \in Indices(its) : At(its, i) = Empty}

\* C14. Push reuses free slots: a push that returns has put the value in
\* the Empty entry of lowest index if items had an Empty entry, and has
\* appended an entry only when it had none; whenever tail equals the length
\* of items, no entry is Empty.
C14_PushFirstEmpty ==
    [][/\ tail = Len(items) => EmptyIdx(items) = {}
       /\ \A t \in Threads :
             (PushDone(t) /\ ~last'.panic) =>
                /\ leases'[arg[t]].live
                /\ At(items', leases'[arg[t]].entry) = Owned(arg[t])
                /\ IF EmptyIdx(items) # {}
                   THEN /\ Len(items') = Len(items)
                        /\ \A i \in EmptyIdx(items) : leases'[arg[t]].entry <= i
                        /\ leases'[arg[t]].entry \in EmptyIdx(items)
                   ELSE /\ Len(items') = Len(items) + 1
                        /\ leases'[arg[t]].entry = Len(items)]_vars

\* C15. Fast path of removal: a remove whose target is tail - 1 leaves the
\* target entry Empty, lowers tail by exactly one and returns None; no
\* value is relocated, no Moved entry is created, and every other entry and
\* the length of items are as before.
C15_FastPath ==
    [][\A t \in Threads :
          (RemoveDone(t) /\ leases[arg[t]].entry = tail - 1) =>
             LET target == leases[arg[t]].entry IN
             /\ ~last'.panic
             /\ last'.ret = {}
             /\ Len(items') = Len(items)
             /\ At(items', target) = Empty
             /\ tail' = tail - 1
             /\ \A i \in Indices(items) \ {target} : At(items', i) = At(items, i)]_vars

\* The last call was a remove on the entry at tail - 1 while entries below
\* it are in use: that entry is Empty, tail now is its index, and the
\* leases of the other values still hold their entries.
C15_Witness ==
    /\ last.op = "remove" /\ ~last.panic /\ last.ret = {}
    /\ last.idx = tail
    /\ tail >= 2
    /\ At(items, last.idx) = Empty
    /\ \E v, w \in LiveLeases : v # w /\ HoldsOwn(v) /\ HoldsOwn(w)

\* The index of the entry a Lease::guard on the lease of v would end at.
ResolvesTo(its, ls, v) == PathEnd(its, ls[v].entry)

\* C16. Stale-removal hazard: a Lease::remove on a lease whose recorded
\* entry is Moved removes at that index without following the redirect;
\* after the call the value of the lease is still held by an Owned entry,
\* and no live lease resolves to that entry.
C16_StaleRemoval ==
    [][\A t \in Threads :
          (/\ RemoveDone(t)
           /\ InRange(items, leases[arg[t]].entry)
           /\ At(items, leases[arg[t]].entry).tag = "Moved") =>
             /\ ~leases'[arg[t]].live
             /\ \E i \in Indices(items') : At(items', i) = Owned(arg[t])
             /\ \A w \in Values :
                   leases'[w].live =>
                      ~(/\ InRange(items', ResolvesTo(items', leases', w))
                        /\ At(items', ResolvesTo(items', leases', w)) = Owned(arg[t]))]_vars

\* The last call was a Lease::remove on a lease that recorded a Moved
\* entry: the lease is gone, its value is still in an Owned entry, and
\* another lease is alive.
C16_Witness ==
    /\ last.op = "remove" /\ last.was = "Moved" /\ ~last.panic
    /\ ~leases[last.val].live
    /\ \E i \in Indices(items) : At(items, i) = Owned(last.val)
    /\ LiveLeases # {}

\* C17. Removal never runs off the front: at every remove made through a
\* live lease tail is at least 1; when the target is not tail - 1, the scan
\* index replace neither reaches zero inside the loop nor is decremented
\* below zero; and the remove does not panic on an underflow or an index
\* out of bounds.
C17_ScanStaysAboveZero ==
    [][\A t \in Threads :
          RemoveDone(t) =>
             /\ tail >= 1
             /\ leases[arg[t]].entry # tail - 1 => LastOwned(items, tail - 1) > 0
             /\ ~last'.panic]_vars

\* The set of indices on the redirect chain of the lease of v, from the
\* index it records to the entry the chain ends at.
ChainOf(v) ==
    {Path(items, leases[v].entry, Len(items))[k] :
        k \in 1..Len(Path(items, leases[v].entry, Len(items)))}

\* C18. Non-aliasing of concurrent resolutions: when Lease::remove is only
\* called on leases whose recorded entry is Owned, the redirect chains of
\* two distinct live leases have no index in common and end at different
\* Owned entries, so two concurrent Lease::guard calls on different leases
\* write no common Moved entry, and two LeaseGuards alive at once never
\* give access to the same entry.
C18_NonAliasing ==
    /\ \A v \in LiveLeases : EndsOwned(items, leases[v].entry)
    /\ \A v, w \in LiveLeases : v # w => ChainOf(v) \cap ChainOf(w) = {}
    /\ \A t, u \in Threads :
          (t # u /\ pc[t] = "held" /\ pc[u] = "held") =>
             leases[arg[t]].entry # leases[arg[u]].entry

\* One thread holds a LeaseGuard while another is inside Lease::guard on a
\* different lease whose recorded entry is a redirect.
C18_Witness ==
    \E t, u \in Threads :
       /\ pc[t] = "held" /\ pc[u] = "guard"
       /\ arg[t] # arg[u]
       /\ InRange(items, leases[arg[u]].entry)
       /\ At(items, leases[arg[u]].entry).tag = "Moved"
       /\ lock.readers = 2

\* C19. Placeholder ownership: when Lease::remove is only called on leases
\* whose recorded entry is Owned, every Moved entry lies on the redirect
\* chain of exactly one live lease.
C19_PlaceholderOwnership ==
    \A i \in Indices(items) :
       At(items, i).tag = "Moved" =>
          Cardinality({v \in LiveLeases : i \in ChainOf(v)}) = 1

\* C20. Resolution terminates: when Lease::remove is only called on leases
\* whose recorded entry is Owned, every Moved(t) entry is at an index r > t,
\* so no chain of Moved entries runs into a cycle or into itself; the loop
\* of Lease::guard visits an entry at most once and ends within as many
\* redirects as items has entries.
C20_NoRedirectCycle ==
    [][/\ \A r \in Indices(items) :
             At(items, r).tag = "Moved" => At(items, r).x < r
       /\ \A i \in Indices(items) :
             LET p == Path(items, i, Len(items))
             IN  /\ \A j, k \in 1..Len(p) : j # k => p[j] # p[k]
                 /\ TagAt(items, PathEnd(items, i)) # "Moved"
       /\ \A t \in Threads :
             GuardDone(t) =>
                LET p == Path(items, leases[arg[t]].entry, Len(items))
                IN  /\ last'.ret = {Len(p) - 1}
                    /\ Len(p) - 1 < Len(items)]_vars

\* A Lease::guard call is about to follow two redirects, each to a lower
\* index, to the Owned entry of its lease.
C20_Witness ==
    \E t \in Threads :
       /\ pc[t] = "guard"
       /\ Len(Path(items, leases[arg[t]].entry, Len(items))) = 3
       /\ At(items, PathEnd(items, leases[arg[t]].entry)) = Owned(arg[t])

====
